---- MODULE Spec2Model ----
(***************************************************************************)
(* A model of the anti-nuke guard of src/main.py: one guild, the two      *)
(* process-wide stores (original_permissions, whitelisted_users), the     *)
(* event handlers and the two commands.  Every handler is an asyncio      *)
(* coroutine: the code between two awaited platform calls runs without    *)
(* interruption, so each action below completes ONE awaited platform call *)
(* (successfully or with an exception, chosen nondeterministically) and   *)
(* then runs the handler's code up to the next awaited platform call.     *)
(* The pc of a task names the platform call it is suspended on.           *)
(*                                                                         *)
(* Spec delivers an event or an unlock command when no handler is running; *)
(* whitelist commands and the members' own permission edits fall between   *)
(* any two platform calls of the running handler.  MaxEvents bounds the    *)
(* events and unlock commands delivered, MaxEdits the members' edits,      *)
(* MaxTasks the handler slots of the event loop.                           *)
(***************************************************************************)
EXTENDS Naturals, Integers, Sequences, FiniteSets, TLC

\* ------------------------------------------------------------- bounds
MaxTasks == 2
MaxEvents == 2
MaxEdits == 1

\* ---------------------------------------------------------- constants
GuildId == "g"
OwnerId == "owner"
Users == {OwnerId, "u1"}
\* guild.me.top_role; a member's top_role ranges over Ranks
BotRank == 1
Ranks == 0 .. 2
None == "None"
ALERT_CHANNEL_NAME == "security-logs"
\* the channel that exists before any incident (C1 of the spec's scenario)
BaseChannel == 1
Tasks == 1 .. MaxTasks

\* permission values of the default role: P0 is the baseline
Perms == {"P0", "P1"}
\* overwrite targets and overwrite values
TargetOrder == <<"default_role", "me", "mod">>
Targets == {TargetOrder[i] : i \in 1 .. Len(TargetOrder)}
EmptyMap == [x \in {} |-> None]
BaseOverwrites == [x \in {"mod"} |-> "O1"]
\* the overwrites of the one category of the guild
CategoryOverwrites == [x \in {"default_role"} |-> "O1"]

ActionTypes ==
  {"channel_create", "channel_delete", "role_create", "role_delete",
   "ban", "kick", "bot_add"}
MitigatedTypes ==
  {"channel_create", "role_create", "channel_delete", "role_delete", "bot_add"}

VARIABLES
  everyone,             \* guild.default_role.permissions
  text_channels,        \* guild.text_channels: id -> [name, category, overwrites]
  roles,                \* the roles created by role_create events that still exist
  banned,               \* the users the platform holds as banned
  original_permissions, \* the snapshot store: guild id -> snapshot
  whitelisted_users,    \* the whitelist registry: guild id -> set of user ids
  tasks,                \* the running handlers
  next_id,              \* the platform's next fresh object id
  events,               \* number of events and unlock commands delivered
  edits                 \* number of permission edits made by members

vars ==
  <<everyone, text_channels, roles, banned, original_permissions,
    whitelisted_users, tasks, next_id, events, edits>>

\* A task: pc, the platform call the handler is suspended on; kind, the
\* action type ("unlock" for the command); user, top_role, the actor; target,
\* the created object (0: None); alert, the alert channel (0: None); chans,
\* items, what the loops of restore_permissions have left; restore_success,
\* what restore_permissions returned.  The other fields record the run for
\* the properties: handled, handle_suspicious_action was called; exempt,
\* is_whitelisted held when it was; fresh, the guild had no snapshot when the
\* handler started; edits0, the members' edits made before the restore
\* started; action, member, the arguments of a whitelist command; log, the
\* platform calls completed and what they ended in.
\* ------------------------------------------------------------ helpers
RECURSIVE SortedSeq(_)
SortedSeq(S) ==
  IF S = {} THEN <<>>
  ELSE LET m == CHOOSE x \in S : \A y \in S : x <= y
       IN <<m>> \o SortedSeq(S \ {m})

RECURSIVE FilterSeq(_, _)
FilterSeq(s, S) ==
  IF s = <<>> THEN <<>>
  ELSE IF Head(s) \in S THEN <<Head(s)>> \o FilterSeq(Tail(s), S)
       ELSE FilterSeq(Tail(s), S)

\* dict.items() of an overwrite mapping, in a fixed order of its keys
Items(ow) == FilterSeq(TargetOrder, DOMAIN ow)

E(op, arg) == [op |-> op, arg |-> arg]
Ops(log) == {log[i].op : i \in 1 .. Len(log)}

IdleTask ==
  [pc |-> "idle", kind |-> None, user |-> None, top_role |-> 0, target |-> 0,
   alert |-> 0, exempt |-> FALSE, chans |-> <<>>, items |-> <<>>,
   restore_success |-> FALSE, handled |-> FALSE, fresh |-> FALSE,
   edits0 |-> 0, action |-> None, member |-> None, log |-> <<>>]

Free(t) == tasks[t].pc = "idle"
\* the scheduler hands a new handler the lowest free slot
FreeSlot(t) == Free(t) /\ \A u \in Tasks : u < t => ~Free(u)
\* no handler is running
Quiet == \A t \in Tasks : Free(t)
\* a handler has run its last statement and is returning to the event loop
Returning == \E t \in Tasks : tasks[t].pc = "done"
\* task t is suspended on the platform call pc and the event loop resumes it
At(t, pc) == ~Returning /\ tasks[t].pc = pc

\* ------------------------------------------------- the pure functions
\* is_whitelisted(guild, user) against a registry wl
is_whitelisted(wl, user) ==
  \/ user = OwnerId
  \/ user \in (IF GuildId \in DOMAIN wl THEN wl[GuildId] ELSE {})

\* the value backup_permissions(guild) stores: the CURRENT default-role
\* permissions and the overwrites of every CURRENT text channel
backup_permissions(ev, chs) ==
  [everyone |-> ev, channels |-> [c \in DOMAIN chs |-> chs[c].overwrites]]

\* discord.utils.get(guild.text_channels, name=ALERT_CHANNEL_NAME):
\* the first text channel of that name, 0 (None) when there is none
FindAlertChannel(chs) ==
  LET named == {c \in DOMAIN chs : chs[c].name = ALERT_CHANNEL_NAME}
  IN IF named = {} THEN 0 ELSE CHOOSE c \in named : \A d \in named : c <= d

\* the overwrites get_alert_channel gives the channel it creates
AlertOverwrites == [x \in {"default_role", "me"} |->
                      IF x = "default_role" THEN "hide" ELSE "show"]

\* channel.edit(sync_permissions=True): a channel in a category takes the
\* category's overwrites, a channel in no category keeps its own
SyncPermissions(ch) ==
  IF ch.category = None THEN ch
  ELSE [ch EXCEPT !.overwrites = CategoryOverwrites]

\* channel.set_permissions(target, overwrite=overwrite)
SetPermissions(ch, target, ow) ==
  [ch EXCEPT !.overwrites =
     [x \in (DOMAIN ch.overwrites) \cup {target} |->
        IF x = target THEN ow ELSE ch.overwrites[x]]]

\* action_type.endswith("_create")
EndsWithCreate(kind) == kind \in {"channel_create", "role_create"}

Logged(rec, op, arg) == [rec EXCEPT !.log = Append(@, E(op, arg))]
Done(rec) == [rec EXCEPT !.pc = "done"]

\* ---------------------------------- the code between two platform calls
\* handle_suspicious_action, from the deletion of the created object on
Cleanup(rec) ==
  IF rec.target # 0 /\ EndsWithCreate(rec.kind)
    THEN [rec EXCEPT !.pc = "delete"]
    ELSE Done(rec)

\* bug: the outcome of the mitigation is not reported
AfterMitigationSilent(rec) == Cleanup(rec)

\* handle_suspicious_action once secure_ban_and_restore has returned:
\* the "Action taken" notice goes to the alert channel when there is one
AfterMitigation(rec) ==
  IF rec.alert # 0 THEN [rec EXCEPT !.pc = "send_msg"] ELSE Cleanup(rec)

\* bug: the except clause of restore_permissions falls through to return True
RestoreReturnTrue(rec, ok) ==
  LET r == [Logged(rec, IF ok THEN "restore_ok" ELSE "restore_failed", 0)
              EXCEPT !.restore_success = TRUE, !.chans = <<>>, !.items = <<>>]
  IN IF r.kind = "unlock" THEN [r EXCEPT !.pc = "unlock_reply"]
     ELSE AfterMitigation(r)

\* restore_permissions has returned ok to its caller
RestoreReturn(rec, ok) ==
  LET r == [Logged(rec, IF ok THEN "restore_ok" ELSE "restore_failed", 0)
              EXCEPT !.restore_success = ok, !.chans = <<>>, !.items = <<>>]
  IN IF r.kind = "unlock" THEN [r EXCEPT !.pc = "unlock_reply"]
     ELSE AfterMitigation(r)

\* the channel loop of restore_permissions: the next channel of chans that
\* the snapshot holds is edited, and the restore returns True after the last
RECURSIVE NextChannel(_, _, _)
NextChannel(rec, snap, chans) ==
  IF chans = <<>> THEN RestoreReturn(rec, TRUE)
  ELSE IF Head(chans) \in DOMAIN snap.channels
         THEN [rec EXCEPT !.pc = "r_edit", !.chans = chans, !.items = <<>>]
         ELSE NextChannel(rec, snap, Tail(chans))

\* the overwrite loop of one channel: the next snapshotted overwrite is set,
\* and the channel loop goes on after the last
NextItem(rec, snap, items) ==
  IF items = <<>> THEN NextChannel(rec, snap, Tail(rec.chans))
  ELSE [rec EXCEPT !.pc = "r_set", !.items = items]

\* bug: the check for a missing snapshot is left out
BeginRestoreUnchecked(rec, store) == [rec EXCEPT !.pc = "r_default"]

\* restore_permissions up to its first platform call
BeginRestore(rec, store) ==
  IF GuildId \notin DOMAIN store THEN RestoreReturn(rec, FALSE)
  ELSE [rec EXCEPT !.pc = "r_default"]

\* bug: the backup is forgotten
MitigateNoBackup(rec, store, wl, ev, chs) ==
  IF is_whitelisted(wl, rec.user)
    THEN [task |-> AfterMitigation(Logged(rec, "ban_skipped", 0)), store |-> store]
    ELSE IF rec.top_role >= BotRank
           THEN [task |-> AfterMitigation(rec), store |-> store]
           ELSE [task |-> [rec EXCEPT !.pc = "ban"], store |-> store]

\* bug: the backup is taken whether or not the guild has a snapshot
MitigateAlwaysBackup(rec, store, wl, ev, chs) ==
  IF is_whitelisted(wl, rec.user)
    THEN [task |-> AfterMitigation(Logged(rec, "ban_skipped", 0)), store |-> store]
    ELSE LET store2 == [g \in {GuildId} |-> backup_permissions(ev, chs)]
             rec2 == Logged(rec, "capture", 0)
         IN IF rec2.top_role >= BotRank
              THEN [task |-> AfterMitigation(rec2), store |-> store2]
              ELSE [task |-> [rec2 EXCEPT !.pc = "ban"], store |-> store2]

\* bug: the existence check is made when the handler starts, the store after
\* the platform calls that follow
MitigateStaleCheck(rec, store, wl, ev, chs) ==
  IF is_whitelisted(wl, rec.user)
    THEN [task |-> AfterMitigation(Logged(rec, "ban_skipped", 0)), store |-> store]
    ELSE LET absent == rec.fresh
             store2 == IF absent
                         THEN [g \in {GuildId} |-> backup_permissions(ev, chs)]
                         ELSE store
             rec2 == IF absent THEN Logged(rec, "capture", 0) ELSE rec
         IN IF rec2.top_role >= BotRank
              THEN [task |-> AfterMitigation(rec2), store |-> store2]
              ELSE [task |-> [rec2 EXCEPT !.pc = "ban"], store |-> store2]

\* secure_ban_and_restore up to guild.ban: [task, store]
Mitigate(rec, store, wl, ev, chs) ==
  IF is_whitelisted(wl, rec.user)
    THEN [task |-> AfterMitigation(Logged(rec, "ban_skipped", 0)), store |-> store]
    ELSE LET absent == GuildId \notin DOMAIN store
             store2 == IF absent
                         THEN [g \in {GuildId} |-> backup_permissions(ev, chs)]
                         ELSE store
             rec2 == IF absent THEN Logged(rec, "capture", 0) ELSE rec
         IN IF rec2.top_role >= BotRank
              THEN [task |-> AfterMitigation(rec2), store |-> store2]
              ELSE [task |-> [rec2 EXCEPT !.pc = "ban"], store |-> store2]

\* bug: the created object is deleted first and the mitigation forgotten
AfterAlertDeleteFirst(rec, store, wl, ev, chs) ==
  [task |-> Cleanup(rec), store |-> store]

\* bug: every action type is mitigated
AfterAlertAll(rec, store, wl, ev, chs) == Mitigate(rec, store, wl, ev, chs)

\* handle_suspicious_action once the alert is out (or there is no channel)
AfterAlert(rec, store, wl, ev, chs) ==
  IF rec.kind \in MitigatedTypes
    THEN Mitigate(rec, store, wl, ev, chs)
    ELSE [task |-> Cleanup(rec), store |-> store]

\* bug: > for >=
GateStrict(rec, chs) ==
  IF rec.top_role > BotRank THEN Done(rec)
  ELSE LET a == FindAlertChannel(chs)
       IN IF a # 0 THEN [rec EXCEPT !.alert = a, !.pc = "send_alert"]
          ELSE [rec EXCEPT !.pc = "create_alert"]

\* handle_suspicious_action up to its first platform call: the rank gate,
\* then get_alert_channel's lookup
Gate(rec, chs) ==
  IF rec.top_role >= BotRank THEN Done(rec)
  ELSE LET a == FindAlertChannel(chs)
       IN IF a # 0 THEN [rec EXCEPT !.alert = a, !.pc = "send_alert"]
          ELSE [rec EXCEPT !.pc = "create_alert"]

Init ==
  /\ everyone = "P0"
  /\ \E cat \in {None, "cat"} :
       text_channels =
         [c \in {BaseChannel} |->
            [name |-> "general", category |-> cat, overwrites |-> BaseOverwrites]]
  /\ roles = {}
  /\ banned = {}
  /\ original_permissions = EmptyMap
  /\ whitelisted_users = EmptyMap
  /\ tasks = [t \in Tasks |-> IdleTask]
  /\ next_id = BaseChannel + 1
  /\ events = 0
  /\ edits = 0


\* ------------------------------------------------------------ actions
SetTask(t, rec) == tasks' = [tasks EXCEPT ![t] = rec]

\* A member acts on the guild and the platform delivers the event: the
\* handler on_guild_channel_create .. on_member_join starts and is suspended
\* on its audit-log query.  A created channel is already in
\* guild.text_channels when its event is delivered.  The objects of the other
\* events (a deleted channel or role, a banned or kicked member, the bot) are
\* none of the text channels and members followed here.
Deliver(t, kind, actor, rank) ==
    /\ events < MaxEvents
    /\ events' = events + 1
    /\ LET rec == [IdleTask EXCEPT !.pc = "audit", !.kind = kind,
                                   !.user = actor, !.top_role = rank,
                                   !.fresh = (GuildId \notin DOMAIN original_permissions)]
       IN CASE kind = "channel_create" ->
                 /\ text_channels' =
                      [c \in DOMAIN text_channels \cup {next_id} |->
                         IF c = next_id
                           THEN [name |-> "new", category |-> None,
                                 overwrites |-> EmptyMap]
                           ELSE text_channels[c]]
                 /\ next_id' = next_id + 1
                 /\ SetTask(t, [rec EXCEPT !.target = next_id])
                 /\ UNCHANGED roles
            [] kind = "role_create" ->
                 /\ roles' = roles \cup {next_id}
                 /\ next_id' = next_id + 1
                 /\ SetTask(t, [rec EXCEPT !.target = next_id])
                 /\ UNCHANGED text_channels
            [] OTHER ->
                 /\ SetTask(t, rec)
                 /\ UNCHANGED <<text_channels, roles, next_id>>
    /\ UNCHANGED <<everyone, banned, original_permissions, whitelisted_users, edits>>

\* an event is delivered while no handler is running
StartEvent ==
  \E t \in Tasks, kind \in ActionTypes, actor \in Users \ banned, rank \in Ranks :
    /\ Quiet /\ FreeSlot(t)
    /\ Deliver(t, kind, actor, rank)

\* the events of a burst: one action type of each treatment (mitigated with a
\* created object, mitigated without, alert only), and a rank on each side of
\* the gate
BurstTypes == {"channel_create", "channel_delete", "kick"}
BurstRanks == {0, BotRank}

\* an event is delivered while the handlers of earlier events are suspended on
\* their platform calls
BurstEvent ==
  \E t \in Tasks, kind \in BurstTypes, actor \in Users \ banned, rank \in BurstRanks :
    /\ ~Returning /\ FreeSlot(t)
    /\ Deliver(t, kind, actor, rank)

\* guild.audit_logs(...) answers with the entry of the event
AuditEntry ==
  \E t \in Tasks :
    /\ At(t, "audit")
    /\ SetTask(t, Gate([tasks[t] EXCEPT
                          !.handled = TRUE,
                          !.exempt = is_whitelisted(whitelisted_users, tasks[t].user)],
                       text_channels))
    /\ UNCHANGED <<everyone, text_channels, roles, banned, original_permissions,
                   whitelisted_users, next_id, events, edits>>

\* guild.audit_logs(...) answers with no entry, or with the entry of another
\* object (the handlers of channel and role events compare the ids)
AuditOther ==
  \E t \in Tasks :
    /\ At(t, "audit")
    /\ SetTask(t, Done(tasks[t]))
    /\ UNCHANGED <<everyone, text_channels, roles, banned, original_permissions,
                   whitelisted_users, next_id, events, edits>>

\* bug: the handler has no except clause and the exception leaves it
AuditErrorEscapes ==
  \E t \in Tasks :
    /\ At(t, "audit")
    /\ SetTask(t, [Logged(tasks[t], "audit_error", 0) EXCEPT !.pc = "raised"])
    /\ UNCHANGED <<everyone, text_channels, roles, banned, original_permissions,
                   whitelisted_users, next_id, events, edits>>

\* guild.audit_logs(...) raises: the handler's except clause prints it
AuditError ==
  \E t \in Tasks :
    /\ At(t, "audit")
    /\ SetTask(t, Done(Logged(tasks[t], "audit_error", 0)))
    /\ UNCHANGED <<everyone, text_channels, roles, banned, original_permissions,
                   whitelisted_users, next_id, events, edits>>

\* get_alert_channel: guild.create_text_channel succeeds; the new channel is
\* in guild.text_channels from then on
CreateAlertOk ==
  \E t \in Tasks :
    /\ At(t, "create_alert")
    /\ text_channels' =
         [c \in DOMAIN text_channels \cup {next_id} |->
            IF c = next_id
              THEN [name |-> ALERT_CHANNEL_NAME, category |-> None,
                    overwrites |-> AlertOverwrites]
              ELSE text_channels[c]]
    /\ next_id' = next_id + 1
    /\ SetTask(t, [Logged(tasks[t], "create_alert_channel", next_id)
                     EXCEPT !.alert = next_id, !.pc = "send_alert"])
    /\ UNCHANGED <<everyone, roles, banned, original_permissions,
                   whitelisted_users, events, edits>>

\* get_alert_channel: guild.create_text_channel raises, None is returned and
\* handle_suspicious_action goes on without an alert channel
CreateAlertFail ==
  \E t \in Tasks :
    /\ At(t, "create_alert")
    /\ LET r == AfterAlert(Logged(tasks[t], "no_alert_channel", 0),
                           original_permissions, whitelisted_users,
                           everyone, text_channels)
       IN /\ SetTask(t, r.task)
          /\ original_permissions' = r.store
    /\ UNCHANGED <<everyone, text_channels, roles, banned,
                   whitelisted_users, next_id, events, edits>>

\* alert_channel.send(embed=embed) succeeds
SendAlertOk ==
  \E t \in Tasks :
    /\ At(t, "send_alert")
    /\ tasks[t].alert \in DOMAIN text_channels
    /\ LET r == AfterAlert(Logged(tasks[t], "alert", 0),
                           original_permissions, whitelisted_users,
                           everyone, text_channels)
       IN /\ SetTask(t, r.task)
          /\ original_permissions' = r.store
    /\ UNCHANGED <<everyone, text_channels, roles, banned,
                   whitelisted_users, next_id, events, edits>>

\* alert_channel.send(embed=embed) raises: the except clause of
\* handle_suspicious_action prints it and the handling is over
SendAlertFail ==
  \E t \in Tasks :
    /\ At(t, "send_alert")
    /\ SetTask(t, Done(Logged(tasks[t], "alert_failed", 0)))
    /\ UNCHANGED <<everyone, text_channels, roles, banned, original_permissions,
                   whitelisted_users, next_id, events, edits>>

\* guild.ban(user) succeeds and secure_ban_and_restore calls restore_permissions
BanOk ==
  \E t \in Tasks :
    /\ At(t, "ban")
    /\ tasks[t].user # OwnerId
    /\ banned' = banned \cup {tasks[t].user}
    /\ SetTask(t, BeginRestore([Logged(tasks[t], "ban", 0) EXCEPT !.edits0 = edits],
                               original_permissions))
    /\ UNCHANGED <<everyone, text_channels, roles, original_permissions,
                   whitelisted_users, next_id, events, edits>>

\* guild.ban(user) raises: secure_ban_and_restore returns (False, "Error: ..")
BanFail ==
  \E t \in Tasks :
    /\ At(t, "ban")
    /\ SetTask(t, AfterMitigation(Logged(tasks[t], "ban_failed", 0)))
    /\ UNCHANGED <<everyone, text_channels, roles, banned, original_permissions,
                   whitelisted_users, next_id, events, edits>>


\* restore_permissions: guild.default_role.edit(permissions=..) succeeds; the
\* channel loop then starts over the text channels the guild has now
RestoreDefaultOk ==
  \E t \in Tasks :
    /\ At(t, "r_default")
    /\ LET snap == original_permissions[GuildId]
       IN /\ everyone' = snap.everyone
          /\ SetTask(t, NextChannel(Logged(tasks[t], "reset_default", 0), snap,
                                    SortedSeq(DOMAIN text_channels)))
    /\ UNCHANGED <<text_channels, roles, banned, original_permissions,
                   whitelisted_users, next_id, events, edits>>

\* restore_permissions: channel.edit(sync_permissions=True) succeeds
RestoreEditOk ==
  \E t \in Tasks :
    /\ At(t, "r_edit")
    /\ LET c == Head(tasks[t].chans)
           snap == original_permissions[GuildId]
       IN /\ c \in DOMAIN text_channels
          /\ text_channels' =
               [text_channels EXCEPT ![c] = SyncPermissions(text_channels[c])]
          /\ SetTask(t, NextItem(Logged(tasks[t], "sync", c), snap,
                                 Items(snap.channels[c])))
    /\ UNCHANGED <<everyone, roles, banned, original_permissions,
                   whitelisted_users, next_id, events, edits>>

\* restore_permissions: channel.set_permissions(target, overwrite=..) succeeds
RestoreSetOk ==
  \E t \in Tasks :
    /\ At(t, "r_set")
    /\ LET c == Head(tasks[t].chans)
           target == Head(tasks[t].items)
           snap == original_permissions[GuildId]
       IN /\ c \in DOMAIN text_channels
          /\ text_channels' =
               [text_channels EXCEPT
                  ![c] = SetPermissions(text_channels[c], target,
                                        snap.channels[c][target])]
          /\ SetTask(t, NextItem(Logged(tasks[t], "set", c), snap,
                                 Tail(tasks[t].items)))
    /\ UNCHANGED <<everyone, roles, banned, original_permissions,
                   whitelisted_users, next_id, events, edits>>

\* restore_permissions: the pending platform call raises; the except clause
\* prints it and returns False
RestoreStepFail ==
  \E t \in Tasks :
    /\ \E pc \in {"r_default", "r_edit", "r_set"} : At(t, pc)
    /\ SetTask(t, RestoreReturn(Logged(tasks[t], "restore_error", 0), FALSE))
    /\ UNCHANGED <<everyone, text_channels, roles, banned, original_permissions,
                   whitelisted_users, next_id, events, edits>>

\* alert_channel.send("Action taken: ..") succeeds
SendMsgOk ==
  \E t \in Tasks :
    /\ At(t, "send_msg")
    /\ tasks[t].alert \in DOMAIN text_channels
    /\ SetTask(t, Cleanup(Logged(tasks[t], "notice", 0)))
    /\ UNCHANGED <<everyone, text_channels, roles, banned, original_permissions,
                   whitelisted_users, next_id, events, edits>>

\* alert_channel.send("Action taken: ..") raises: the except clause of
\* handle_suspicious_action prints it and the handling is over
SendMsgFail ==
  \E t \in Tasks :
    /\ At(t, "send_msg")
    /\ SetTask(t, Done(Logged(tasks[t], "notice_failed", 0)))
    /\ UNCHANGED <<everyone, text_channels, roles, banned, original_permissions,
                   whitelisted_users, next_id, events, edits>>

\* target.delete(reason="Suspicious creation") succeeds
DeleteOk ==
  \E t \in Tasks :
    /\ At(t, "delete")
    /\ LET x == tasks[t].target
       IN /\ x \in DOMAIN text_channels \cup roles
          /\ text_channels' = [d \in DOMAIN text_channels \ {x} |-> text_channels[d]]
          /\ roles' = roles \ {x}
          /\ SetTask(t, Done(Logged(tasks[t], "delete", x)))
    /\ UNCHANGED <<everyone, banned, original_permissions,
                   whitelisted_users, next_id, events, edits>>

\* target.delete(..) raises: the inner except clause passes
DeleteFail ==
  \E t \in Tasks :
    /\ At(t, "delete")
    /\ SetTask(t, Done(Logged(tasks[t], "delete_failed", tasks[t].target)))
    /\ UNCHANGED <<everyone, text_channels, roles, banned, original_permissions,
                   whitelisted_users, next_id, events, edits>>

\* !unlock by an administrator: manual_unlock calls restore_permissions
Unlock(t) ==
    /\ events < MaxEvents
    /\ events' = events + 1
    /\ SetTask(t, BeginRestore([IdleTask EXCEPT !.kind = "unlock", !.edits0 = edits,
                                 !.fresh = (GuildId \notin DOMAIN original_permissions)],
                               original_permissions))
    /\ UNCHANGED <<everyone, text_channels, roles, banned, original_permissions,
                   whitelisted_users, next_id, edits>>

\* the command is issued while no handler is running
StartUnlock == \E t \in Tasks : Quiet /\ FreeSlot(t) /\ Unlock(t)

\* the command is issued while other handlers are suspended on their calls
BurstUnlock == \E t \in Tasks : ~Returning /\ FreeSlot(t) /\ Unlock(t)

\* manual_unlock: ctx.send of the success or of the failure message, the last
\* statement of the command
UnlockReply ==
  \E t \in Tasks :
    /\ At(t, "unlock_reply")
    /\ SetTask(t, Done(Logged(tasks[t],
                              IF tasks[t].restore_success
                                THEN "reply_restored" ELSE "reply_failed", 0)))
    /\ UNCHANGED <<everyone, text_channels, roles, banned, original_permissions,
                   whitelisted_users, next_id, events, edits>>

\* ------------------------------------------------- the whitelist command
WhitelistActions == {"add", "remove", "list", "clear"}

\* the set of users the registry wl holds for the guild
Listed(wl) == IF GuildId \in DOMAIN wl THEN wl[GuildId] ELSE {}

\* bug: the caller is not checked against the owner
WhitelistUpdateAnyone(wl, author, action, member) ==
  LET cur == IF GuildId \in DOMAIN wl THEN wl[GuildId] ELSE {}
      set(S) == [g \in {GuildId} |-> S]
  IN CASE action = "add" /\ member \notin {None, OwnerId} ->
            set(cur \cup {member})
       [] action = "remove" /\ member # None /\ member \in cur ->
            set(cur \ {member})
       [] OTHER -> set(cur)

\* bug: the owner is added like any member
WhitelistUpdateAddsOwner(wl, author, action, member) ==
  IF author # OwnerId THEN wl
  ELSE LET cur == IF GuildId \in DOMAIN wl THEN wl[GuildId] ELSE {}
           set(S) == [g \in {GuildId} |-> S]
       IN CASE action = "add" /\ member # None ->
                 set(cur \cup {member})
            [] action = "remove" /\ member # None /\ member \in cur ->
                 set(cur \ {member})
            [] OTHER -> set(cur)

\* the registry after whitelist(ctx, action, member)
WhitelistUpdate(wl, author, action, member) ==
  IF author # OwnerId THEN wl
  ELSE LET cur == IF GuildId \in DOMAIN wl THEN wl[GuildId] ELSE {}
           set(S) == [g \in {GuildId} |-> S]
       IN CASE action = "add" /\ member \notin {None, OwnerId} ->
                 set(cur \cup {member})
            [] action = "remove" /\ member # None /\ member \in cur ->
                 set(cur \ {member})
            [] OTHER -> set(cur)

\* the message whitelist(ctx, action, member) sends
WhitelistReply(wl, author, action, member) ==
  LET cur == IF GuildId \in DOMAIN wl THEN wl[GuildId] ELSE {}
  IN CASE author # OwnerId -> "only_owner"
       [] action = "add" /\ member = None -> "mention_to_add"
       [] action = "add" /\ member = OwnerId -> "owner_automatic"
       [] action = "add" -> "added"
       [] action = "remove" /\ member = None -> "mention_to_remove"
       [] action = "remove" /\ member \in cur -> "removed"
       [] action = "remove" -> "not_in_whitelist"
       [] action = "list" /\ cur # {} -> "members"
       [] action = "list" -> "no_members"
       [] OTHER -> "invalid_action"

WhitelistCmd(author, action, member) ==
  /\ ~Returning
  /\ whitelisted_users' = WhitelistUpdate(whitelisted_users, author, action, member)
  /\ UNCHANGED <<everyone, text_channels, roles, banned, original_permissions,
                 tasks, next_id, events, edits>>

Whitelist ==
  \E author \in Users, action \in WhitelistActions, member \in Users \cup {None} :
    WhitelistCmd(author, action, member)

\* The whitelist command as the coroutine it is: whitelist(ctx, action, member)
\* runs up to the ctx.send of its message, the registry already updated, and
\* is suspended on that send
StartWhitelist ==
  \E t \in Tasks, author \in Users, action \in WhitelistActions,
     member \in Users \cup {None} :
    /\ ~Returning /\ FreeSlot(t)
    /\ whitelisted_users' = WhitelistUpdate(whitelisted_users, author, action, member)
    /\ SetTask(t, [Logged(IdleTask,
                          WhitelistReply(whitelisted_users, author, action, member), 0)
                     EXCEPT !.pc = "wl_send", !.kind = "whitelist", !.user = author,
                            !.action = action, !.member = member])
    /\ UNCHANGED <<everyone, text_channels, roles, banned, original_permissions,
                   next_id, events, edits>>

\* ctx.send(..) of the whitelist command returns or raises: either way the
\* command has run its last statement
WhitelistSent ==
  \E t \in Tasks :
    /\ At(t, "wl_send")
    /\ SetTask(t, Done(tasks[t]))
    /\ UNCHANGED <<everyone, text_channels, roles, banned, original_permissions,
                   whitelisted_users, next_id, events, edits>>

\* ------------------------------------------- members edit permissions
\* A member with the permission to do so edits the default role
EditDefaultRole ==
  /\ ~Returning
  /\ edits < MaxEdits
  /\ edits' = edits + 1
  /\ \E p \in Perms \ {everyone} : everyone' = p
  /\ UNCHANGED <<text_channels, roles, banned, original_permissions,
                 whitelisted_users, tasks, next_id, events>>

\* A member sets an overwrite of the channel the guild started with
EditOverwrite ==
  /\ ~Returning
  /\ edits < MaxEdits
  /\ edits' = edits + 1
  /\ BaseChannel \in DOMAIN text_channels
  /\ \E target \in {"default_role", "mod"} :
       text_channels' =
         [text_channels EXCEPT
            ![BaseChannel] = SetPermissions(text_channels[BaseChannel], target, "O2")]
  /\ UNCHANGED <<everyone, roles, banned, original_permissions,
                 whitelisted_users, tasks, next_id, events>>

\* A handler that has returned leaves the event loop's task list; this is the
\* return itself, so nothing else runs between the last statement and it
Finish ==
  \E t \in Tasks :
    /\ tasks[t].pc = "done"
    /\ SetTask(t, IdleTask)
    /\ UNCHANGED <<everyone, text_channels, roles, banned, original_permissions,
                   whitelisted_users, next_id, events, edits>>

Next ==
  \/ StartEvent \/ AuditEntry \/ AuditOther \/ AuditError
  \/ CreateAlertOk \/ CreateAlertFail \/ SendAlertOk \/ SendAlertFail
  \/ BanOk \/ BanFail
  \/ RestoreDefaultOk \/ RestoreEditOk \/ RestoreSetOk \/ RestoreStepFail
  \/ SendMsgOk \/ SendMsgFail \/ DeleteOk \/ DeleteFail
  \/ StartUnlock \/ UnlockReply
  \/ Whitelist \/ EditDefaultRole \/ EditOverwrite
  \/ Finish

Spec == Init /\ [][Next]_vars

\* Bursts: events and unlock commands arrive while earlier handlers are still
\* suspended, so the handlers' platform calls interleave
HandlerStep ==
  \/ AuditEntry \/ AuditOther \/ AuditError
  \/ CreateAlertOk \/ CreateAlertFail \/ SendAlertOk \/ SendAlertFail
  \/ BanOk \/ BanFail
  \/ RestoreDefaultOk \/ RestoreEditOk \/ RestoreSetOk \/ RestoreStepFail
  \/ SendMsgOk \/ SendMsgFail \/ DeleteOk \/ DeleteFail
  \/ UnlockReply
  \/ Finish

NextBurst ==
  \/ BurstEvent \/ BurstUnlock
  \/ AuditEntry \/ AuditOther \/ AuditError
  \/ CreateAlertOk \/ CreateAlertFail \/ SendAlertOk \/ SendAlertFail
  \/ BanOk \/ BanFail
  \/ RestoreDefaultOk \/ RestoreEditOk \/ RestoreSetOk \/ RestoreStepFail
  \/ SendMsgOk \/ SendMsgFail \/ DeleteOk \/ DeleteFail
  \/ UnlockReply
  \/ Finish

SpecBurst == Init /\ [][NextBurst]_vars

\* every platform call returns or raises, and the event loop resumes every
\* handler whose call has
LiveBurst == SpecBurst /\ WF_vars(HandlerStep)

\* The whitelist command alone, its invocations overlapping at their sends
NextCommands == StartWhitelist \/ WhitelistSent \/ Finish

SpecCommands == Init /\ [][NextCommands]_vars


\* ============================================================ properties
\* what the log calls a side effect of the handling of an event
BanOps == {"ban", "ban_failed"}
RestoreOps == {"reset_default", "sync", "set"}
DeleteOps == {"delete", "delete_failed"}
\* the platform calls that raised
FailureOps ==
  {"audit_error", "no_alert_channel", "alert_failed", "ban_failed",
   "restore_error", "notice_failed", "delete_failed"}

\* the first and the last place of an op of S in a log, 0 when there is none
First(log, S) ==
  LET I == {i \in 1 .. Len(log) : log[i].op \in S}
  IN IF I = {} THEN 0 ELSE CHOOSE i \in I : \A j \in I : i <= j
Last(log, S) ==
  LET I == {i \in 1 .. Len(log) : log[i].op \in S}
  IN IF I = {} THEN 0 ELSE CHOOSE i \in I : \A j \in I : i >= j

Snapshot == original_permissions[GuildId]
HasSnapshot == GuildId \in DOMAIN original_permissions

\* C1: an event whose actor is the guild owner or whitelisted when
\* handle_suspicious_action is called has no further action: no alert is
\* posted, no ban issued, no snapshot captured or restored, nothing deleted,
\* whatever the actor's rank.
C1_ExemptActorNoAction ==
  \A t \in Tasks :
    tasks[t].exempt =>
      Ops(tasks[t].log) \cap
        ({"alert", "ban", "capture", "delete"} \cup RestoreOps) = {}

\* C2: an event whose actor has a top role at or above the bot's is never
\* suspended on a platform call after the audit query and logs no alert, ban,
\* capture, restore or deletion, also when such events repeat.
C2_HigherRankNoAction ==
  \A t \in Tasks :
    (tasks[t].kind \in ActionTypes /\ tasks[t].top_role >= BotRank) =>
      /\ tasks[t].pc \in {"audit", "done"}
      /\ tasks[t].log \in {<<>>, <<E("audit_error", 0)>>}

\* a second event of an actor at or above the bot's rank has been gated
C2_Witness ==
  \E t \in Tasks :
    /\ events > 1
    /\ tasks[t].handled /\ tasks[t].pc = "done"
    /\ tasks[t].top_role >= BotRank
    /\ tasks[t].user \notin {OwnerId} /\ ~tasks[t].exempt

\* a handling of a channel_create event of an escalated actor, started with no
\* snapshot in the guild, that has run to its end with every platform call
\* succeeding
CleanFirstCreate(t) ==
  /\ tasks[t].kind = "channel_create" /\ tasks[t].pc = "done"
  /\ tasks[t].handled /\ tasks[t].fresh /\ ~tasks[t].exempt
  /\ tasks[t].top_role < BotRank
  /\ Ops(tasks[t].log) \cap (FailureOps \cup {"ban_skipped"}) = {}

C4_SnapshotIsBaseline ==
  \A t \in Tasks :
    (/\ tasks[t].kind = "channel_create" /\ tasks[t].fresh
     /\ events = 1 /\ edits = 0
     /\ "capture" \in Ops(tasks[t].log)) =>
      Snapshot = [everyone |-> "P0",
                  channels |-> [c \in {BaseChannel} |-> BaseOverwrites]]

\* C5: once the guild has a snapshot, no step changes or removes it.
C5_SnapshotWriteOnce ==
  [][HasSnapshot => original_permissions' = original_permissions]_vars

\* a later handler has asked for a capture (it has passed the existence check
\* of secure_ban_and_restore and waits for its ban) while the guild differs
\* from the stored snapshot
C5_Witness ==
  \E t \in Tasks :
    /\ tasks[t].pc = "ban" /\ ~tasks[t].fresh
    /\ HasSnapshot
    /\ Snapshot # backup_permissions(everyone, text_channels)


\* an unlock command issued while the guild has no snapshot
UnlockNoSnapshot(t) == tasks[t].kind = "unlock" /\ tasks[t].fresh

\* C6: restore on a guild with no snapshot returns False without a platform
\* call; the unlock command then replies with the failure message, and none of
\* its steps changes the guild's permissions or the snapshot store.
C6_RestoreWithoutSnapshot ==
  /\ [](\A t \in Tasks :
          UnlockNoSnapshot(t) =>
            /\ tasks[t].pc \in {"unlock_reply", "done"}
            /\ ~tasks[t].restore_success
            /\ ~HasSnapshot
            /\ tasks[t].log \in
                 {<<E("restore_failed", 0)>>,
                  <<E("restore_failed", 0), E("reply_failed", 0)>>}
            /\ (tasks[t].pc = "done") = (Len(tasks[t].log) = 2))
  /\ [][\A t \in Tasks :
          (tasks'[t].kind = "unlock" /\ tasks'[t].fresh /\ tasks'[t] # tasks[t]) =>
            UNCHANGED <<everyone, text_channels, original_permissions>>]_vars

\* the unlock command has replied with the failure message while the guild's
\* permissions are not those it started with
C6_Witness ==
  \E t \in Tasks :
    /\ UnlockNoSnapshot(t) /\ tasks[t].pc = "done"
    /\ E("reply_failed", 0) \in {tasks[t].log[i] : i \in 1 .. Len(tasks[t].log)}
    /\ everyone = "P1"

\* restore_permissions has just returned True to task t, and no member has
\* edited a permission since it started
RestoredUndisturbed(t) ==
  /\ tasks[t].log # <<>>
  /\ tasks[t].log[Len(tasks[t].log)].op = "restore_ok"
  /\ tasks[t].edits0 = edits

\* C7: when restore returns success the default role has the snapshot's
\* permissions and every current text channel the snapshot holds has exactly
\* its snapshotted overwrites.
C7_RestoreEqualsSnapshot ==
  \A t \in Tasks :
    RestoredUndisturbed(t) =>
      /\ everyone = Snapshot.everyone
      /\ \A c \in DOMAIN text_channels \cap DOMAIN Snapshot.channels :
           text_channels[c].overwrites = Snapshot.channels[c]

\* C8: a platform call of restore raises: restore returns False right there,
\* no later edit of that restore is applied, what was applied stays and the
\* snapshot stays, and the caller goes on normally.
C8_RestoreStopsAtFailure ==
  /\ [](\A t \in Tasks :
          LET log == tasks[t].log
              i == First(log, {"restore_error"})
          IN i > 0 =>
               /\ Len(log) > i /\ log[i + 1].op = "restore_failed"
               /\ ~tasks[t].restore_success
               /\ Last(log, RestoreOps \cup {"restore_ok"}) < i
               /\ tasks[t].pc \in {"send_msg", "delete", "done", "unlock_reply"}
               /\ tasks[t].chans = <<>> /\ tasks[t].items = <<>>
               /\ HasSnapshot)
  /\ [][\A t \in Tasks :
          (/\ "restore_error" \in Ops(tasks'[t].log)
           /\ "restore_error" \notin Ops(tasks[t].log)) =>
            UNCHANGED <<everyone, text_channels, original_permissions>>]_vars

\* a member's edit made after the capture was undone by the first calls of a
\* restore whose later call raised: the guild is back at the baseline though
\* the restore returned False
C8_Witness ==
  \E t \in Tasks :
    /\ {"reset_default", "sync", "restore_error"} \subseteq Ops(tasks[t].log)
    /\ tasks[t].pc = "done"
    /\ edits = 1 /\ tasks[t].edits0 = 1
    /\ Snapshot.everyone = "P0" /\ everyone = "P0"
    /\ BaseChannel \in DOMAIN text_channels
    /\ text_channels[BaseChannel].category = None
    /\ text_channels[BaseChannel].overwrites = BaseOverwrites

\* the handling of a mitigation-eligible event of an escalated actor has ended
\* and the alert could not be delivered
AlertFailed(t) ==
  /\ tasks[t].pc = "done" /\ tasks[t].handled
  /\ tasks[t].kind \in MitigatedTypes
  /\ ~tasks[t].exempt /\ tasks[t].top_role < BotRank
  /\ ~is_whitelisted(whitelisted_users, tasks[t].user)
  /\ Ops(tasks[t].log) \cap {"no_alert_channel", "alert_failed"} # {}

\* C9: whether the alert channel cannot be resolved or the post to it fails,
\* the ban is attempted, the restore after a successful ban, and the deletion
\* of the created object of a create event.
C9_AlertFailureNoBlock ==
  \A t \in Tasks :
    AlertFailed(t) =>
      LET ops == Ops(tasks[t].log)
      IN /\ ops \cap BanOps # {}
         /\ "ban" \in ops => ops \cap {"restore_ok", "restore_failed"} # {}
         /\ (EndsWithCreate(tasks[t].kind) /\ tasks[t].target # 0) =>
              ops \cap DeleteOps # {}

\* C10: the platform rejects the ban: no restore is run for the event, the
\* "Action taken: Error .." notice is sent to the alert channel when one was
\* resolved (and only then), and the handler goes on to its cleanup.
C10_BanRejected ==
  \A t \in Tasks :
    LET log == tasks[t].log
        i == First(log, {"ban_failed"})
    IN i > 0 =>
         /\ Ops(log) \cap
              (RestoreOps \cup {"ban", "restore_ok", "restore_failed", "restore_error"}) = {}
         /\ tasks[t].pc \in {"send_msg", "delete", "done"}
         /\ tasks[t].alert # 0 =>
              \/ tasks[t].pc = "send_msg" /\ Len(log) = i
              \/ Len(log) > i /\ log[i + 1].op \in {"notice", "notice_failed"}
         /\ tasks[t].alert = 0 => Ops(log) \cap {"notice", "notice_failed"} = {}
         /\ (tasks[t].pc = "delete") =>
              (tasks[t].target # 0 /\ EndsWithCreate(tasks[t].kind))

\* a rejected ban whose failure notice reached the alert channel
C10_Witness ==
  \E t \in Tasks :
    /\ tasks[t].pc = "done"
    /\ {"ban_failed", "notice"} \subseteq Ops(tasks[t].log)

\* an event of action type ban or kick
AlertOnly(rec) == rec.kind \in {"ban", "kick"}

\* C11: the handling of a ban or kick event only resolves the alert channel
\* and posts the alert: it never waits on a ban, a restore call or a deletion,
\* logs none of them nor a capture, and none of its steps changes the bans, the
\* snapshot store, the default role, the roles or an existing text channel.
C11_BanKickAlertOnly ==
  /\ [](\A t \in Tasks :
          AlertOnly(tasks[t]) =>
            /\ tasks[t].pc \in {"audit", "create_alert", "send_alert", "done"}
            /\ tasks[t].target = 0
            /\ Ops(tasks[t].log) \subseteq
                 {"audit_error", "create_alert_channel", "no_alert_channel",
                  "alert", "alert_failed"})
  /\ [][\A t \in Tasks :
          (AlertOnly(tasks'[t]) /\ tasks'[t] # tasks[t]) =>
            /\ UNCHANGED <<banned, original_permissions, everyone, roles>>
            /\ \A c \in DOMAIN text_channels :
                 c \in DOMAIN text_channels' /\ text_channels'[c] = text_channels[c]]_vars

\* the second of two alert-only events by member u1, of a rank below the
\* bot's, has been alerted on: nobody is banned and the guild has no snapshot
C11_Witness ==
  \E t \in Tasks :
    /\ AlertOnly(tasks[t]) /\ tasks[t].pc = "done"
    /\ events = 2
    /\ tasks[t].user = "u1" /\ tasks[t].top_role < BotRank /\ ~tasks[t].exempt
    /\ "alert" \in Ops(tasks[t].log)
    /\ banned = {} /\ ~HasSnapshot

\* the whitelist command of task rec has just run up to its send
Issued(old, rec) == old.pc = "idle" /\ rec.kind = "whitelist"

\* C12: a whitelist command of a caller who is not the owner answers "only the
\* owner" and leaves the registry as it is; add or remove by the owner without
\* a member, and remove of a member who is not listed, answer with their
\* rejection and leave the set of listed users as it is; the send that
\* follows changes nothing.
C12_WhitelistRejected ==
  /\ [][\A t \in Tasks :
          Issued(tasks[t], tasks'[t]) =>
            LET rec == tasks'[t]
                reply == rec.log[1].op
                same == Listed(whitelisted_users') = Listed(whitelisted_users)
            IN /\ rec.user # OwnerId =>
                    reply = "only_owner" /\ whitelisted_users' = whitelisted_users
               /\ (rec.user = OwnerId /\ rec.action = "add" /\ rec.member = None) =>
                    reply = "mention_to_add" /\ same
               /\ (rec.user = OwnerId /\ rec.action = "remove" /\ rec.member = None) =>
                    reply = "mention_to_remove" /\ same
               /\ (/\ rec.user = OwnerId /\ rec.action = "remove"
                   /\ rec.member # None
                   /\ rec.member \notin Listed(whitelisted_users)) =>
                    reply = "not_in_whitelist" /\ same]_vars
  /\ [][\A t \in Tasks :
          (tasks[t].kind = "whitelist" /\ tasks'[t] # tasks[t]) =>
            whitelisted_users' = whitelisted_users]_vars

\* member u1, who is listed, has asked to be removed, and the owner has asked
\* to remove nobody: both were turned down and u1 is still listed
C12_Witness ==
  \E t, u \in Tasks :
    /\ tasks[t].kind = "whitelist" /\ tasks[t].user = "u1"
    /\ tasks[t].action = "remove" /\ tasks[t].member = "u1"
    /\ tasks[t].log[1].op = "only_owner"
    /\ tasks[u].kind = "whitelist" /\ tasks[u].user = OwnerId
    /\ tasks[u].action = "remove" /\ tasks[u].member = None
    /\ tasks[u].log[1].op = "mention_to_remove"
    /\ Listed(whitelisted_users) = {"u1"}

\* C13: the stored whitelist never holds the owner, the whitelist check holds
\* for the owner whatever the registry, and an add of the owner by the owner
\* answers "automatically whitelisted" and leaves the listed users as they are.
C13_OwnerNeverStored ==
  /\ [](/\ OwnerId \notin Listed(whitelisted_users)
        /\ is_whitelisted(whitelisted_users, OwnerId)
        /\ \A u \in Users \ {OwnerId} :
             is_whitelisted(whitelisted_users, u) = (u \in Listed(whitelisted_users)))
  /\ [][\A t \in Tasks :
          (/\ Issued(tasks[t], tasks'[t])
           /\ tasks'[t].user = OwnerId /\ tasks'[t].action = "add"
           /\ tasks'[t].member = OwnerId) =>
            /\ tasks'[t].log[1].op = "owner_automatic"
            /\ Listed(whitelisted_users') = Listed(whitelisted_users)]_vars

\* the owner has asked to add the owner while u1 is listed: u1 alone is listed
C13_Witness ==
  \E t \in Tasks :
    /\ tasks[t].kind = "whitelist" /\ tasks[t].user = OwnerId
    /\ tasks[t].action = "add" /\ tasks[t].member = OwnerId
    /\ tasks[t].log[1].op = "owner_automatic"
    /\ whitelisted_users = [g \in {GuildId} |-> {"u1"}]

\* the handler has passed the existence check of secure_ban_and_restore
PastCheck(rec) ==
  \/ rec.pc \in {"ban", "r_default", "r_edit", "r_set"}
  \/ Ops(rec.log) \cap {"capture", "ban", "ban_failed"} # {}

\* C14: with handlers overlapping, a capture is made only when the guild has no
\* snapshot and stores the guild as it is in that very step; a stored snapshot
\* is never written again; every handler past the existence check finds a
\* snapshot, and at most one of the running handlers has captured.
C14_CaptureOnce ==
  /\ [](/\ \A t \in Tasks : PastCheck(tasks[t]) => HasSnapshot
        /\ Cardinality({t \in Tasks : "capture" \in Ops(tasks[t].log)}) <= 1)
  /\ [][\A t \in Tasks :
          (/\ "capture" \in Ops(tasks'[t].log)
           /\ "capture" \notin Ops(tasks[t].log)) =>
            /\ ~HasSnapshot
            /\ original_permissions' =
                 [g \in {GuildId} |-> backup_permissions(everyone, text_channels)]]_vars
  /\ [][HasSnapshot => original_permissions' = original_permissions]_vars

\* two overlapping escalated events, both delivered while the guild had no
\* snapshot, are past the existence check; one of them captured, and the
\* guild is no longer as the snapshot has it
C14_Witness ==
  \E t, u \in Tasks :
    /\ t # u
    /\ tasks[t].fresh /\ tasks[u].fresh
    /\ tasks[t].kind \in MitigatedTypes /\ tasks[u].kind \in MitigatedTypes
    /\ tasks[t].pc = "ban" /\ tasks[u].pc = "ban"
    /\ "capture" \in Ops(tasks[t].log) /\ "capture" \notin Ops(tasks[u].log)
    /\ Snapshot # backup_permissions(everyone, text_channels)

\* a channel_create event of a member who is not exempt and ranks below the bot
EscalatedCreate(rec) ==
  /\ rec.kind = "channel_create"
  /\ ~is_whitelisted(whitelisted_users, rec.user)
  /\ rec.top_role < BotRank

\* C15: of two overlapping channel_create events of the same escalated member,
\* each one whose handling has ended with no platform call raising, the ban
\* apart, has attempted its ban and the deletion of the channel it is about.
C15_EachEventBansAndDeletes ==
  \A t, u \in Tasks :
    (/\ t # u
     /\ EscalatedCreate(tasks[t]) /\ EscalatedCreate(tasks[u])
     /\ tasks[t].user = tasks[u].user
     /\ tasks[t].pc = "done"
     /\ Ops(tasks[t].log) \cap (FailureOps \ {"ban_failed"}) = {}) =>
      /\ Ops(tasks[t].log) \cap BanOps # {}
      /\ \E i \in 1 .. Len(tasks[t].log) :
           tasks[t].log[i].op \in DeleteOps /\ tasks[t].log[i].arg = tasks[t].target

\* a restore that has completed its first platform call and waits on a later
\* one
Restoring(rec) == rec.pc \in {"r_edit", "r_set"}

\* C16: no two handlers are inside a restore of the guild at once.
C16_RestoresSerialized ==
  \A t, u \in Tasks : (Restoring(tasks[t]) /\ Restoring(tasks[u])) => t = u

\* restore_permissions has returned True to the handler
Restored(rec) == "restore_ok" \in Ops(rec.log)

\* C20: when two overlapping handlers have both had their restore return
\* True and no member has edited a permission, the default role has the snapshot's permissions and every current
\* text channel the snapshot holds has exactly its snapshotted overwrites.
C20_RestoresConverge ==
  \A t, u \in Tasks :
    (t # u /\ Restored(tasks[t]) /\ Restored(tasks[u]) /\ edits = 0) =>
      /\ everyone = Snapshot.everyone
      /\ \A c \in DOMAIN text_channels \cap DOMAIN Snapshot.channels :
           text_channels[c].overwrites = Snapshot.channels[c]

\* where a handler can be: idle, suspended on a platform call, or returning
HandlerPcs ==
  {"idle", "audit", "create_alert", "send_alert", "ban", "r_default", "r_edit",
   "r_set", "send_msg", "delete", "unlock_reply", "done"}

\* a platform call of the handler has raised in this step
Failed(old, rec) ==
  /\ Len(rec.log) > Len(old.log)
  /\ \E i \in Len(old.log) + 1 .. Len(rec.log) : rec.log[i].op \in FailureOps

\* C17: every handling comes back to idle (the events delivered being finitely
\* many, all handlers are idle in the end); a handler is never
\* anywhere but idle, suspended on a platform call or returning; and the step
\* in which a platform call raises leaves the handler going on or returning,
\* every other handler as it was and the guild untouched.
C17_FailuresConfined ==
  /\ <>[]Quiet
  /\ [](\A t \in Tasks : tasks[t].pc \in HandlerPcs)
  /\ [][\A t \in Tasks :
          Failed(tasks[t], tasks'[t]) =>
            /\ tasks'[t].pc \in {"ban", "send_msg", "delete", "unlock_reply", "done"}
            /\ \A u \in Tasks \ {t} : tasks'[u] = tasks[u]
            /\ UNCHANGED <<everyone, text_channels, roles, banned, events>>]_vars

\* the handling of an event in which the alert channel could not be created,
\* the ban was rejected and the deletion failed has run to its end, while the
\* handler of the next event is at work
C17_Witness ==
  \E t, u \in Tasks :
    /\ tasks[t].pc = "done"
    /\ {"no_alert_channel", "ban_failed", "delete_failed"} \subseteq Ops(tasks[t].log)
    /\ tasks[u].kind \in ActionTypes /\ tasks[u].pc = "send_alert"
    /\ events = 2

\* what secure_ban_and_restore leaves in the log when it decides on the ban
MitigationOps == {"ban_skipped", "ban", "ban_failed"}

\* C18: a handler waits on or has attempted a deletion only for a _create
\* event with a created object, after its mitigation step and as its last
\* call, and the deletion is of that object; the handlers of channel_delete,
\* role_delete and bot_add events never do and none of their steps removes a
\* channel or a role; a deletion that raises changes nothing and the handler
\* returns as after one that succeeds.
C18_DeletionOnlyForCreate ==
  /\ [](\A t \in Tasks :
          LET rec == tasks[t]
              i == First(rec.log, DeleteOps)
          IN /\ (rec.pc = "delete" \/ i > 0) =>
                  /\ EndsWithCreate(rec.kind) /\ rec.target # 0
                  /\ First(rec.log, MitigationOps) > 0
             /\ i > 0 =>
                  /\ i = Len(rec.log) /\ rec.pc = "done"
                  /\ rec.log[i].arg = rec.target
                  /\ Last(rec.log, MitigationOps \cup RestoreOps) < i
             /\ rec.kind \in {"channel_delete", "role_delete", "bot_add"} =>
                  /\ rec.pc # "delete" /\ rec.target = 0
                  /\ Ops(rec.log) \cap DeleteOps = {})
  /\ [][\A t \in Tasks :
          /\ (/\ tasks'[t].kind \in {"channel_delete", "role_delete", "bot_add"}
              /\ tasks'[t] # tasks[t]) =>
               /\ DOMAIN text_channels \subseteq DOMAIN text_channels'
               /\ roles \subseteq roles'
          /\ (/\ "delete_failed" \in Ops(tasks'[t].log)
              /\ "delete_failed" \notin Ops(tasks[t].log)) =>
               /\ tasks'[t].pc = "done"
               /\ UNCHANGED <<everyone, text_channels, roles, banned,
                              original_permissions>>]_vars

\* the handling of a role_create event has banned the member, restored and
\* posted its notice; the deletion of the role then raised and the role is
\* still there
C18_Witness ==
  \E t \in Tasks :
    /\ tasks[t].kind = "role_create" /\ tasks[t].pc = "done"
    /\ {"ban", "restore_ok", "notice", "delete_failed"} \subseteq Ops(tasks[t].log)
    /\ tasks[t].target \in roles

\* C19: an event whose actor is the owner or whitelisted when the event is
\* handed to handle_suspicious_action leads to no ban attempt, no capture and
\* no restore call.
C19_ExemptNeverPunished ==
  \A t \in Tasks :
    tasks[t].exempt =>
      Ops(tasks[t].log) \cap (BanOps \cup {"capture"} \cup RestoreOps) = {}

====
